---- MODULE Spec2Model ----
(***************************************************************************)
(* Model of the Awacs JavaScript SDK (src/index.js): construction of a     *)
(* client session, its setters, the signer and the sendEvent pipeline.     *)
(*                                                                         *)
(* JavaScript values are modelled as strings; `undefined` and `null` are   *)
(* the strings Undefined and Null.  An event object is a function from a   *)
(* set of field names to values, so that adding a field is visible.        *)
(* An asynchronous call is cut at its `await`s: each action is one         *)
(* synchronous run of the code between two suspension points.              *)
(***************************************************************************)
EXTENDS Integers, Sequences, FiniteSets, TLC

\* ------------------------------------------------------------------ bounds
MaxCalls == 2      \* number of sendEvent calls issued on the session
MaxPayload == 2    \* longest array handed to sign directly

\* ---------------------------------------------------------- JS value layer
Undefined == "undefined"
Null == "null"

\* JS truthiness of a (string-modelled) value: !v is true for undefined,
\* null and the empty string.
Truthy(v) == v \notin {Undefined, Null, ""}

\* Property read on an object: a missing property reads as undefined.
Get(obj, f) == IF f \in DOMAIN obj THEN obj[f] ELSE Undefined

\* Property assignment on an object: adds the property or overwrites it.
SetField(obj, f, v) == [g \in (DOMAIN obj) \cup {f} |-> IF g = f THEN v ELSE obj[g]]

\* The object with no property (placeholder for "no event yet").
NoObject == [g \in {} |-> g]

\* pkg.version, the SDK's own release version.
PkgVersion == "1.0.0"

\* The user-agent header value built by sendEvent.
UserAgent == <<"socketkit-js-", PkgVersion>>

\* The default logger installed by the constructor.
Console == "console"

\* ------------------------------------------------- event schema registry
\* Object.entries(Events): the exported event types, in export order.
EventEntries ==
  << <<"app_open", "schema_app_open">>,
     <<"in_app_purchase", "schema_in_app_purchase">>,
     <<"set_client", "schema_set_client">>,
     <<"custom", "schema_custom">> >>

EventNames == {EventEntries[i][1] : i \in 1..Len(EventEntries)}

\* EntriesFind with an unknown name falling back to the custom schema.
EntriesFind_FallbackCustom(name) ==
  LET hits == {i \in 1..Len(EventEntries) : EventEntries[i][1] = name}
  IN  IF hits = {} THEN EventEntries[4]
      ELSE EventEntries[CHOOSE i \in hits : \A j \in hits : i <= j]

\* Array.prototype.find over the entries: the first entry whose key is the
\* name, or the empty tuple for `undefined` (no entry matched).
EntriesFind(name) ==
  LET hits == {i \in 1..Len(EventEntries) : EventEntries[i][1] = name}
  IN  IF hits = {} THEN <<>>
      ELSE EventEntries[CHOOSE i \in hits : \A j \in hits : i <= j]

\* Fields in the order a serializer emits them.
FieldOrder == <<"name", "timestamp", "properties", "library_version">>

\* Required fields of a schema.
RequiredFields(type) ==
  IF type = "schema_app_open"
  THEN {"name", "timestamp", "library_version"}
  ELSE {"name", "timestamp"}

\* ajv.validate(type, event): the event is valid when no required field is
\* missing; the error detail lists every missing required field.  The
\* event is not modified.
AjvValidate(type, event) ==
  LET missing == SelectSeq(FieldOrder,
                   LAMBDA f : f \in RequiredFields(type) /\ Get(event, f) = Undefined)
  IN  [valid |-> missing = <<>>, errors |-> missing]

\* ------------------------------------------------------------------ logging
LogLine(level, msg, detail, sink) ==
  [level |-> level, msg |-> msg, detail |-> detail, sink |-> sink]

\* --------------------------------------------------------------- the signer
\* JSON.stringify of one event: its defined fields as key/value pairs.
StringifyEvent(event) ==
  LET present == SelectSeq(FieldOrder, LAMBDA f : Get(event, f) # Undefined)
  IN  [i \in 1..Len(present) |-> <<present[i], event[present[i]]>>]

\* JSON.stringify throws on a value that has no JSON form.
Serializable(event) == Get(event, "properties") # "unserializable"

\* JSON.stringify(payload) of an array of events.
JsonStringify(items) ==
  IF \A i \in 1..Len(items) : Serializable(items[i])
  THEN [threw |-> FALSE, bytes |-> [i \in 1..Len(items) |-> StringifyEvent(items[i])]]
  ELSE [threw |-> TRUE, bytes |-> <<>>]

\* Crypto.sign(null, body, der): throws when the PEM body does not parse.
KeyParses(key) == key = "goodkey"

NullSignature == [isNull |-> TRUE, key |-> "", bytes |-> <<>>]
Signature(key, bytes) == [isNull |-> FALSE, key |-> key, bytes |-> bytes]

\* The signature check left out.
SignatureFalsy_Never(sig) == FALSE

\* !signature
SignatureFalsy(sig) == sig.isNull

\* A payload is what a caller hands to sign: an array of events, or a
\* non-array value (a single event object).
ArrayOf(items) == [isArray |-> TRUE, items |-> items]
NotArray(event) == [isArray |-> FALSE, items |-> <<event>>]

\* The array check left out.
IsArray_Always(payload) == TRUE

\* Array.isArray(payload)
IsArray(payload) == payload.isArray

\* sign(payload) with this.signing_key = key and this.logger = sink: the
\* returned value, the lines logged and the internal steps attempted.
Sign(payload, key, sink) ==
  IF ~IsArray(payload)
  THEN [ret |-> NullSignature,
        logs |-> <<LogLine("error", "sign_not_array", <<>>, sink)>>,
        serialized |-> FALSE, threw |-> FALSE]
  ELSE LET body == JsonStringify(payload.items)
       IN  IF body.threw \/ ~KeyParses(key)
           THEN [ret |-> NullSignature,
                 logs |-> <<LogLine("warn", "sign_failed", <<>>, sink)>>,
                 serialized |-> TRUE, threw |-> FALSE]
           ELSE [ret |-> Signature(key, body.bytes),
                 logs |-> <<>>,
                 serialized |-> TRUE, threw |-> FALSE]

\* ------------------------------------------------------------ isEventValid
\* library_version assigned only when the caller supplied none.
Enrich_OnlyIfMissing(event) ==
  IF event["name"] = "app_open" /\ Get(event, "library_version") = Undefined
  THEN SetField(event, "library_version", PkgVersion)
  ELSE event

\* library_version assigned to every event, whatever its type.
Enrich_EveryType(event) == SetField(event, "library_version", PkgVersion)

\* The derived field: an app_open event gets library_version assigned,
\* whether or not the caller supplied one; other events are left alone.
Enrich(event) ==
  IF event["name"] = "app_open"
  THEN SetField(event, "library_version", PkgVersion)
  ELSE event

\* isEventValid answering from the validator's shared error list: an event is
\* accepted only when ajv.errors was empty before this validation.
IsEventValid_VerdictFromSharedErrors(event, sink, errs) ==
  IF ~Truthy(Get(event, "name"))
  THEN [ret |-> FALSE, threw |-> FALSE, event |-> event, errors |-> errs,
        logs |-> <<LogLine("warn", "invalid_name", <<>>, sink)>>,
        checked |-> FALSE]
  ELSE LET entry == EntriesFind(event["name"])
       IN  IF entry = <<>>
           THEN [ret |-> FALSE, threw |-> TRUE, event |-> event, errors |-> errs,
                 logs |-> <<>>, checked |-> FALSE]
           ELSE LET type == entry[2]
                    enriched == Enrich(event)
                IN  IF ~Truthy(type)
                    THEN [ret |-> FALSE, threw |-> FALSE, event |-> enriched,
                          errors |-> errs,
                          logs |-> <<LogLine("warn", "type_not_exist", <<>>, sink)>>,
                          checked |-> FALSE]
                    ELSE LET v == AjvValidate(type, enriched)
                         IN  [ret |-> v.valid /\ errs = <<>>, threw |-> FALSE,
                              event |-> enriched,
                              errors |-> IF errs = <<>> THEN v.errors ELSE errs,
                              logs |-> <<>>, checked |-> TRUE]


\* isEventValid running the schema check on the event as it was handed in,
\* and attaching library_version only afterwards.
IsEventValid_ValidatesBeforeEnriching(event, sink, errs) ==
  IF ~Truthy(Get(event, "name"))
  THEN [ret |-> FALSE, threw |-> FALSE, event |-> event, errors |-> errs,
        logs |-> <<LogLine("warn", "invalid_name", <<>>, sink)>>,
        checked |-> FALSE]
  ELSE LET entry == EntriesFind(event["name"])
       IN  IF entry = <<>>
           THEN [ret |-> FALSE, threw |-> TRUE, event |-> event, errors |-> errs,
                 logs |-> <<>>, checked |-> FALSE]
           ELSE LET type == entry[2]
                    v == AjvValidate(type, event)
                IN  [ret |-> v.valid, threw |-> FALSE, event |-> Enrich(event),
                     errors |-> v.errors, logs |-> <<>>, checked |-> TRUE]


\* isEventValid(event) with this.logger = sink and ajv.errors = errs.
\* ret: the returned boolean; threw: an exception left the method;
\* event: the event object after the call; errors: ajv.errors after it;
\* checked: ajv.validate was run.
IsEventValid(event, sink, errs) ==
  IF ~Truthy(Get(event, "name"))
  THEN [ret |-> FALSE, threw |-> FALSE, event |-> event, errors |-> errs,
        logs |-> <<LogLine("warn", "invalid_name", <<>>, sink)>>,
        checked |-> FALSE]
  ELSE LET entry == EntriesFind(event["name"])
       IN  IF entry = <<>>
           \* destructuring `undefined` raises a TypeError
           THEN [ret |-> FALSE, threw |-> TRUE, event |-> event, errors |-> errs,
                 logs |-> <<>>, checked |-> FALSE]
           ELSE LET type == entry[2]
                    enriched == Enrich(event)
                IN  IF ~Truthy(type)
                    THEN [ret |-> FALSE, threw |-> FALSE, event |-> enriched,
                          errors |-> errs,
                          logs |-> <<LogLine("warn", "type_not_exist", <<>>, sink)>>,
                          checked |-> FALSE]
                    ELSE LET v == AjvValidate(type, enriched)
                         IN  [ret |-> v.valid, threw |-> FALSE, event |-> enriched,
                              errors |-> v.errors, logs |-> <<>>, checked |-> TRUE]

\* ------------------------------------------------------------- constructor
\* The options parameter with its default: an omitted argument is replaced
\* by { authorization_key: null, signing_key: null }.
DefaultOptions == [authorization_key |-> Null, signing_key |-> Null]

OptionsOrDefault(omitted, options) == IF omitted THEN DefaultOptions ELSE options

\* The presence checks without the one for signing_key.
ConstructorError_NoSigningKeyCheck(baseURL, opts) ==
  IF ~Truthy(baseURL) THEN "[Awacs] Missing baseURL"
  ELSE IF ~Truthy(Get(opts, "authorization_key")) THEN "[Awacs] Missing authorization_key"
  ELSE ""

\* The constructor's three presence checks, in order: the message of the
\* Error thrown, or "" when construction succeeds.
ConstructorError(baseURL, opts) ==
  IF ~Truthy(baseURL) THEN "[Awacs] Missing baseURL"
  ELSE IF ~Truthy(Get(opts, "authorization_key")) THEN "[Awacs] Missing authorization_key"
  ELSE IF ~Truthy(Get(opts, "signing_key")) THEN "[Awacs] Missing signing_key"
  ELSE ""

\* ---------------------------------------------------------------- sendEvent
\* The guard testing only for a client_id that was never assigned.
ClientIdMissing_OnlyUndefined(cid) == cid = Undefined

\* !this.client_id
ClientIdMissing(cid) == ~Truthy(cid)

\* sendEvent signing a copy of the event taken before validation enriched it.
SendEventSync_SignsBeforeEnrichment(event, cid, key, sink, errs) ==
  IF ClientIdMissing(cid)
  THEN [pc |-> "done", outcome |-> "abort_no_client_id", event |-> event,
        errors |-> errs,
        logs |-> <<LogLine("warn", "need_client_id", <<>>, sink)>>,
        steps |-> <<"START">>, signature |-> NullSignature,
        signs |-> 0, checks |-> 0]
  ELSE LET v == IsEventValid(event, sink, errs)
           nchecks == IF v.checked THEN 1 ELSE 0
       IN  IF v.threw
           THEN [pc |-> "done", outcome |-> "rejected", event |-> v.event,
                 errors |-> v.errors, logs |-> v.logs,
                 steps |-> <<"START", "VALIDATE">>, signature |-> NullSignature,
                 signs |-> 0, checks |-> nchecks]
           ELSE IF ~v.ret
           THEN [pc |-> "done", outcome |-> "abort_invalid", event |-> v.event,
                 errors |-> v.errors,
                 logs |-> v.logs \o <<LogLine("warn", "validate_failed", <<>>, sink),
                                      LogLine("error", "ajv_errors", v.errors, sink)>>,
                 steps |-> <<"START", "VALIDATE">>, signature |-> NullSignature,
                 signs |-> 0, checks |-> nchecks]
           ELSE LET s == Sign(ArrayOf(<<event>>), key, sink)
                IN  [pc |-> "awaitSign", outcome |-> "pending", event |-> v.event,
                     errors |-> v.errors, logs |-> v.logs \o s.logs,
                     steps |-> <<"START", "VALIDATE", "SIGN">>, signature |-> s.ret,
                     signs |-> 1, checks |-> nchecks]


\* The synchronous run of sendEvent(event) up to its first await, with
\* this.client_id = cid, this.signing_key = key, this.logger = sink and
\* ajv.errors = errs.  sign is an async function without an await of its
\* own, so its whole body runs inside this step; the caller is resumed with
\* its result later.
SendEventSync(event, cid, key, sink, errs) ==
  IF ClientIdMissing(cid)
  THEN [pc |-> "done", outcome |-> "abort_no_client_id", event |-> event,
        errors |-> errs,
        logs |-> <<LogLine("warn", "need_client_id", <<>>, sink)>>,
        steps |-> <<"START">>, signature |-> NullSignature,
        signs |-> 0, checks |-> 0]
  ELSE LET v == IsEventValid(event, sink, errs)
           nchecks == IF v.checked THEN 1 ELSE 0
       IN  IF v.threw
           THEN [pc |-> "done", outcome |-> "rejected", event |-> v.event,
                 errors |-> v.errors, logs |-> v.logs,
                 steps |-> <<"START", "VALIDATE">>, signature |-> NullSignature,
                 signs |-> 0, checks |-> nchecks]
           ELSE IF ~v.ret
           THEN [pc |-> "done", outcome |-> "abort_invalid", event |-> v.event,
                 errors |-> v.errors,
                 logs |-> v.logs \o <<LogLine("warn", "validate_failed", <<>>, sink),
                                      LogLine("error", "ajv_errors", v.errors, sink)>>,
                 steps |-> <<"START", "VALIDATE">>, signature |-> NullSignature,
                 signs |-> 0, checks |-> nchecks]
           ELSE LET s == Sign(ArrayOf(<<v.event>>), key, sink)
                IN  [pc |-> "awaitSign", outcome |-> "pending", event |-> v.event,
                     errors |-> v.errors, logs |-> v.logs \o s.logs,
                     steps |-> <<"START", "VALIDATE", "SIGN">>, signature |-> s.ret,
                     signs |-> 1, checks |-> nchecks]

\* The request without the authorization key in its headers.
PostRequest_NoAuthorizationKey(event, signature, akey, cid) ==
  [path |-> "/v1/events",
   body |-> <<event>>,
   wire |-> JsonStringify(<<event>>).bytes,
   headers |-> [x_socketkit_key |-> Undefined,
                x_signature |-> signature,
                x_client_id |-> cid,
                user_agent |-> UserAgent]]

\* The request with the authorization key sent as the client id.
PostRequest_KeyAsClientId(event, signature, akey, cid) ==
  [path |-> "/v1/events",
   body |-> <<event>>,
   wire |-> JsonStringify(<<event>>).bytes,
   headers |-> [x_socketkit_key |-> akey,
                x_signature |-> signature,
                x_client_id |-> akey,
                user_agent |-> UserAgent]]

\* The request handed to the transport by this.client.post.
PostRequest(event, signature, akey, cid) ==
  [path |-> "/v1/events",
   body |-> <<event>>,
   wire |-> JsonStringify(<<event>>).bytes,
   headers |-> [x_socketkit_key |-> akey,
                x_signature |-> signature,
                x_client_id |-> cid,
                user_agent |-> UserAgent]]

\* The resumed run posting the request a second time.
SendEventResume_PostTwice(event, signature, akey, cid, sink) ==
  IF SignatureFalsy(signature)
  THEN [pc |-> "done", outcome |-> "abort_no_signature", posts |-> <<>>,
        steps |-> <<>>, logs |-> <<>>]
  ELSE [pc |-> "awaitPost", outcome |-> "pending",
        posts |-> <<PostRequest(event, signature, akey, cid),
                    PostRequest(event, signature, akey, cid)>>,
        steps |-> <<"DISPATCH">>, logs |-> <<>>]

\* The resumed run waiting on the transport although nothing was posted.
SendEventResume_AbortAwaitsTransport(event, signature, akey, cid, sink) ==
  IF SignatureFalsy(signature)
  THEN [pc |-> "awaitPost", outcome |-> "abort_no_signature", posts |-> <<>>,
        steps |-> <<>>, logs |-> <<>>]
  ELSE [pc |-> "awaitPost", outcome |-> "pending",
        posts |-> <<PostRequest(event, signature, akey, cid)>>,
        steps |-> <<"DISPATCH">>, logs |-> <<>>]


\* The resumed run logging a warning of its own when the signature is absent.
SendEventResume_WarnsOnAbort(event, signature, akey, cid, sink) ==
  IF SignatureFalsy(signature)
  THEN [pc |-> "done", outcome |-> "abort_no_signature", posts |-> <<>>,
        steps |-> <<>>,
        logs |-> <<LogLine("warn", "no_signature", <<>>, sink)>>]
  ELSE [pc |-> "awaitPost", outcome |-> "pending",
        posts |-> <<PostRequest(event, signature, akey, cid)>>,
        steps |-> <<"DISPATCH">>, logs |-> <<>>]

\* The run of sendEvent after `await this.sign(request)` resumes: the posts
\* it issues, the lines it logs (with this.logger = sink) and where the
\* call stands afterwards.
SendEventResume(event, signature, akey, cid, sink) ==
  IF SignatureFalsy(signature)
  THEN [pc |-> "done", outcome |-> "abort_no_signature", posts |-> <<>>,
        steps |-> <<>>, logs |-> <<>>]
  ELSE [pc |-> "awaitPost", outcome |-> "pending",
        posts |-> <<PostRequest(event, signature, akey, cid)>>,
        steps |-> <<"DISPATCH">>, logs |-> <<>>]

\* The catch block passing the transport's error on to the caller.
SendEventSettle_Rethrows(failed, sink) ==
  IF failed
  THEN [outcome |-> "rejected", logs |-> <<>>]
  ELSE [outcome |-> "done", logs |-> <<>>]

\* The run of sendEvent after the awaited post settles: a rejected post is
\* caught and logged, a fulfilled one ends the call.
SendEventSettle(failed, sink) ==
  IF failed
  THEN [outcome |-> "done_transport_error",
        logs |-> <<LogLine("warn", "transport_error", <<>>, sink)>>]
  ELSE [outcome |-> "done", logs |-> <<>>]

\* ------------------------------------------------------------ input domains
BaseURLs == {Undefined, "", "https://example.com"}
AuthorizationKeys == {Null, "", "ak"}
SigningKeys == {Null, "", "goodkey", "badkey"}
OptionObjects ==
  [authorization_key : AuthorizationKeys, signing_key : SigningKeys]
    \cup {[authorization_key |-> "ak"], [signing_key |-> "goodkey"]}
ClientIds == {Null, "", "11111111"}
Loggers == {Console, "custom_logger"}

\* Events a caller sends: valid ones of every type, schema-invalid ones,
\* one without a name, one with a name outside the registry and one whose
\* properties cannot be serialized.
EventValues ==
  { [name |-> "custom", timestamp |-> "1700000000000", properties |-> "x1"],
    [name |-> "custom", timestamp |-> "1700000000000", properties |-> "unserializable"],
    [name |-> "custom"],
    [name |-> "in_app_purchase", timestamp |-> "1700000000000"],
    [name |-> "set_client", timestamp |-> "1700000000000"],
    [name |-> "app_open", timestamp |-> "1700000000000"],
    [name |-> "app_open", timestamp |-> "1700000000000", library_version |-> "0.0.1"],
    [name |-> "bogus", timestamp |-> "1700000000000"],
    [timestamp |-> "1700000000000"] }

\* Events inside the payloads handed to sign directly.
SignEvents ==
  { [name |-> "custom", timestamp |-> "1700000000000"],
    [name |-> "custom", properties |-> "unserializable"],
    [name |-> "bogus"] }

\* Payloads a caller hands to sign directly: arrays of events and
\* non-array values.
SignPayloads ==
  {NotArray(e) : e \in SignEvents}
    \cup UNION {{ArrayOf(items) : items \in [1..n -> SignEvents]} : n \in 0..MaxPayload}

\* -------------------------------------------------------------------- state
VARIABLES
  session,            \* "none", "live" (constructed) or "failed" (constructor threw)
  ctor,               \* the arguments and the error of the constructor call
  signing_key,        \* this.signing_key
  authorization_key,  \* this.authorization_key
  baseURL,            \* the baseURL of this.client
  client_id,          \* this.client_id
  logger,             \* this.logger
  ajvErrors,          \* ajv.errors of the shared validator (<<>> for null)
  objs,               \* the event objects of the caller, by the call they were made for
  calls,              \* the sendEvent calls, by call number
  lastSign,           \* the most recent direct call of sign and its result
  setterLog           \* the lines logged by the most recent setter call

vars == <<session, ctor, signing_key, authorization_key, baseURL, client_id,
          logger, ajvErrors, objs, calls, lastSign, setterLog>>

sessionFields == <<signing_key, authorization_key, baseURL, client_id, logger>>

CallIds == 1..MaxCalls

IdleCall ==
  [pc |-> "idle", outcome |-> "none", obj |-> 0, arg |-> NoObject,
   event |-> NoObject, cidAtStart |-> Undefined, transport |-> "none",
   steps |-> <<>>, signature |-> NullSignature, signs |-> 0, checks |-> 0,
   logs |-> <<>>, posts |-> <<>>]

NoSign == [called |-> FALSE, payload |-> ArrayOf(<<>>), ret |-> NullSignature,
           logs |-> <<>>, serialized |-> FALSE, threw |-> FALSE]

\* The constructor: the state of the new object when no check fails, no
\* object (every field undefined) when one throws.
Constructor(url, omitted, options) ==
  LET opts == OptionsOrDefault(omitted, options)
      err == ConstructorError(url, opts)
      args == [baseURL |-> url, omitted |-> omitted, options |-> opts, error |-> err]
  IN  IF err # ""
      THEN [session |-> "failed", ctor |-> args,
            signing_key |-> Undefined, authorization_key |-> Undefined,
            baseURL |-> Undefined, client_id |-> Undefined, logger |-> Undefined]
      ELSE [session |-> "live", ctor |-> args,
            signing_key |-> Get(opts, "signing_key"),
            authorization_key |-> Get(opts, "authorization_key"),
            baseURL |-> url, client_id |-> Null, logger |-> Console]

NoActivity ==
  /\ ajvErrors = <<>>
  /\ objs = [c \in CallIds |-> NoObject]
  /\ calls = [c \in CallIds |-> IdleCall]
  /\ lastSign = NoSign
  /\ setterLog = <<>>

\* Before any constructor call.
InitApi ==
  /\ session = "none"
  /\ ctor = [baseURL |-> Undefined, omitted |-> TRUE, options |-> DefaultOptions,
             error |-> ""]
  /\ signing_key = Undefined
  /\ authorization_key = Undefined
  /\ baseURL = Undefined
  /\ client_id = Undefined
  /\ logger = Undefined
  /\ NoActivity

\* A session right after a successful construction.
Init ==
  /\ \E url \in BaseURLs, options \in OptionObjects :
       LET obj == Constructor(url, FALSE, options)
       IN  /\ obj.session = "live"
           /\ session = obj.session
           /\ ctor = obj.ctor
           /\ signing_key = obj.signing_key
           /\ authorization_key = obj.authorization_key
           /\ baseURL = obj.baseURL
           /\ client_id = obj.client_id
           /\ logger = obj.logger
  /\ NoActivity

\* ------------------------------------------------------------------ actions
\* new Awacs(url, options) / new Awacs(url)
Construct(url, omitted, options) ==
  /\ session = "none"
  /\ LET obj == Constructor(url, omitted, options)
     IN  /\ session' = obj.session
         /\ ctor' = obj.ctor
         /\ signing_key' = obj.signing_key
         /\ authorization_key' = obj.authorization_key
         /\ baseURL' = obj.baseURL
         /\ client_id' = obj.client_id
         /\ logger' = obj.logger
  /\ UNCHANGED <<ajvErrors, objs, calls, lastSign, setterLog>>

\* setClientId that also stores its argument as the signing key.
SetClientId_ClobbersSigningKey(id) ==
  /\ session = "live"
  /\ client_id' = id
  /\ signing_key' = id
  /\ setterLog' = <<LogLine("debug", "set_client_id", <<id>>, logger)>>
  /\ UNCHANGED <<session, ctor, authorization_key, baseURL, logger,
                 ajvErrors, objs, calls, lastSign>>


\* setClientId(client_id)
SetClientId(id) ==
  /\ session = "live"
  /\ client_id' = id
  /\ setterLog' = <<LogLine("debug", "set_client_id", <<id>>, logger)>>
  /\ UNCHANGED <<session, ctor, signing_key, authorization_key, baseURL, logger,
                 ajvErrors, objs, calls, lastSign>>

\* setLogger(logger)
SetLogger(l) ==
  /\ session = "live"
  /\ logger' = l
  /\ setterLog' = <<LogLine("debug", "set_logger", <<>>, l)>>
  /\ UNCHANGED <<session, ctor, signing_key, authorization_key, baseURL, client_id,
                 ajvErrors, objs, calls, lastSign>>

\* sign(payload), called directly by the user of the session
SignCall(payload) ==
  /\ session = "live"
  /\ LET r == Sign(payload, signing_key, logger)
     IN  lastSign' = [called |-> TRUE, payload |-> payload, ret |-> r.ret,
                      logs |-> r.logs, serialized |-> r.serialized,
                      threw |-> r.threw]
  /\ UNCHANGED <<session, ctor, sessionFields, ajvErrors, objs, calls, setterLog>>

\* The next call number: calls are numbered in the order they are issued.
NextCall ==
  CHOOSE c \in CallIds :
    calls[c].pc = "idle" /\ \A d \in CallIds : d < c => calls[d].pc # "idle"

\* sendEvent(event) is called with the event object o, whose content is e;
\* the code runs up to its first await and leaves the object as enriched.
SendEventOn(o, e) ==
  LET c == NextCall
      r == SendEventSync(e, client_id, signing_key, logger, ajvErrors)
  IN  /\ ajvErrors' = r.errors
      /\ objs' = [objs EXCEPT ![o] = r.event]
      /\ calls' = [calls EXCEPT ![c] =
                     [pc |-> r.pc, outcome |-> r.outcome, obj |-> o,
                      arg |-> e, event |-> r.event, cidAtStart |-> client_id,
                      transport |-> "none",
                      steps |-> r.steps, signature |-> r.signature,
                      signs |-> r.signs, checks |-> r.checks,
                      logs |-> r.logs, posts |-> <<>>]]
      /\ UNCHANGED <<session, ctor, sessionFields, lastSign, setterLog>>

\* sendEvent(event) is called with a new event object.
SendEventStart(e) ==
  /\ session = "live"
  /\ \E c \in CallIds : calls[c].pc = "idle"
  /\ SendEventOn(NextCall, e)

\* sendEvent(event) is called again with the event object of an earlier
\* call d, which may still be in flight.
SendEventAgain(d) ==
  /\ session = "live"
  /\ \E c \in CallIds : calls[c].pc = "idle"
  /\ calls[d].pc # "idle"
  /\ SendEventOn(calls[d].obj, objs[calls[d].obj])

\* The awaited sign has settled: sendEvent resumes, and posts or stops.
SendEventAfterSign(c) ==
  /\ calls[c].pc = "awaitSign"
  /\ LET r == SendEventResume(objs[calls[c].obj], calls[c].signature,
                              authorization_key, client_id, logger)
     IN  calls' = [calls EXCEPT ![c].pc = r.pc,
                                ![c].outcome = r.outcome,
                                ![c].logs = @ \o r.logs,
                                ![c].steps = @ \o r.steps,
                                ![c].posts = @ \o r.posts]
  /\ UNCHANGED <<session, ctor, sessionFields, ajvErrors, objs, lastSign, setterLog>>

\* The transport settles the post: it succeeds, or fails (network error,
\* non-2xx response).
PostSettles(c, failed) ==
  /\ calls[c].pc = "awaitPost"
  /\ LET r == SendEventSettle(failed, logger)
     IN  calls' = [calls EXCEPT ![c].pc = "done",
                                ![c].outcome = r.outcome,
                                ![c].transport = IF failed THEN "rejected"
                                                 ELSE "fulfilled",
                                ![c].logs = @ \o r.logs]
  /\ UNCHANGED <<session, ctor, sessionFields, ajvErrors, objs, lastSign, setterLog>>

PostFulfilled(c) == PostSettles(c, FALSE)

PostRejected(c) == PostSettles(c, TRUE)

\* The sendEvent pipeline on a constructed session.
Next ==
  \/ \E id \in ClientIds : SetClientId(id)
  \/ \E l \in Loggers : SetLogger(l)
  \/ \E e \in EventValues : SendEventStart(e)
  \/ \E d \in CallIds : SendEventAgain(d)
  \/ \E c \in CallIds : SendEventAfterSign(c)
  \/ \E c \in CallIds : PostFulfilled(c)
  \/ \E c \in CallIds : PostRejected(c)

Spec == Init /\ [][Next]_vars

\* The pipeline with its scheduling: the promise of sign is settled when it
\* is awaited (sign has no await of its own), so the event loop resumes the
\* call; the transport settles every post it was handed.
SpecLive ==
  /\ Init
  /\ [][Next]_vars
  /\ \A c \in CallIds : WF_vars(SendEventAfterSign(c))
  /\ \A c \in CallIds : WF_vars(PostFulfilled(c) \/ PostRejected(c))


\* Construction, the setters and direct calls of sign.
NextApi ==
  \/ \E url \in BaseURLs, omitted \in BOOLEAN, options \in OptionObjects :
       Construct(url, omitted, options)
  \/ \E id \in ClientIds : SetClientId(id)
  \/ \E l \in Loggers : SetLogger(l)
  \/ \E p \in SignPayloads : SignCall(p)

\* Payloads for direct calls of sign made while sendEvent calls are running.
DirectSignPayloads ==
  { ArrayOf(<<[name |-> "custom", timestamp |-> "1700000000000"]>>),
    NotArray([name |-> "custom", timestamp |-> "1700000000000"]) }

\* Every operation of a constructed session: the setters, sign and sendEvent.
NextAll ==
  \/ \E id \in ClientIds : SetClientId(id)
  \/ \E l \in Loggers : SetLogger(l)
  \/ \E p \in DirectSignPayloads : SignCall(p)
  \/ \E e \in EventValues : SendEventStart(e)
  \/ \E d \in CallIds : SendEventAgain(d)
  \/ \E c \in CallIds : SendEventAfterSign(c)
  \/ \E c \in CallIds : PostFulfilled(c)
  \/ \E c \in CallIds : PostRejected(c)

SpecAll == Init /\ [][NextAll]_vars


SpecApi == InitApi /\ [][NextApi]_vars

TypeOK ==
  /\ session \in {"none", "live", "failed"}
  /\ \A c \in CallIds : calls[c].pc \in {"idle", "awaitSign", "awaitPost", "done"}

\* ------------------------------------------------------- claim vocabulary
Started(c) == calls[c].pc # "idle"

Finished(c) == calls[c].pc = "done"

LinesAt(logs, level) == SelectSeq(logs, LAMBDA l : l.level = level)

\* The event's name is missing, or is no key of the registry.
NameUnusable(e) == ~Truthy(Get(e, "name")) \/ Get(e, "name") \notin EventNames

\* The event's name is set but is no key of the registry.
NameUnknown(e) == Truthy(Get(e, "name")) /\ Get(e, "name") \notin EventNames

IsPrefix(s, t) == Len(s) <= Len(t) /\ \A i \in 1..Len(s) : s[i] = t[i]

PipelineOrder == <<"START", "VALIDATE", "SIGN", "DISPATCH">>

\* The schema check accepts the event as it stands after enrichment.
PassedValidation(c) ==
  /\ calls[c].checks = 1
  /\ ~NameUnusable(calls[c].event)
  /\ AjvValidate(EntriesFind(calls[c].event["name"])[2], calls[c].event).valid

\* ------------------------------------------------------------------ claims

\* C1: after construction no sendEvent call throws or rejects, whatever the
\* event and whether or not client_id is set.
C1_SendEventNeverRejects ==
  \A c \in CallIds : calls[c].outcome # "rejected"

\* C2: an event with no name, or with a name that is no key of the
\* registry, never reaches the signer or the transport: sign is not invoked
\* and no POST is issued for it.
C2_UnusableNameNeverSignedOrPosted ==
  \A c \in CallIds :
    Started(c) /\ NameUnusable(calls[c].arg) =>
      /\ calls[c].signs = 0
      /\ calls[c].posts = <<>>
      /\ calls[c].pc = "done"
      /\ \A i \in 1..Len(calls[c].steps) : calls[c].steps[i] \notin {"SIGN", "DISPATCH"}

C2_Witness ==
  \E c, d \in CallIds :
    /\ Finished(c) /\ Truthy(calls[c].cidAtStart) /\ NameUnknown(calls[c].arg)
    /\ Finished(d) /\ Truthy(calls[d].cidAtStart)
    /\ Get(calls[d].arg, "name") = Undefined

\* C3: with client_id set, sending an event whose name is outside the
\* registry ends normally with zero POSTs and exactly one warning logged.
C3_UnknownNameOneWarning ==
  \A c \in CallIds :
    Finished(c) /\ Truthy(calls[c].cidAtStart) /\ NameUnknown(calls[c].arg) =>
      /\ calls[c].posts = <<>>
      /\ calls[c].outcome # "rejected"
      /\ Len(LinesAt(calls[c].logs, "warn")) = 1

\* C4: a sendEvent call made while client_id is unset or falsy logs one
\* warning and stops: no validation, no enrichment, no signing, no POST,
\* nothing thrown.
C4_NoClientIdIsNoOp ==
  \A c \in CallIds :
    Started(c) /\ ~Truthy(calls[c].cidAtStart) =>
      /\ calls[c].pc = "done"
      /\ calls[c].outcome = "abort_no_client_id"
      /\ Len(calls[c].logs) = 1
      /\ calls[c].logs[1].level = "warn"
      /\ calls[c].steps = <<"START">>
      /\ calls[c].checks = 0
      /\ calls[c].event = calls[c].arg
      /\ calls[c].signs = 0
      /\ calls[c].posts = <<>>

C4_Witness ==
  \E c, d \in CallIds :
    /\ Finished(c) /\ calls[c].cidAtStart = Null
    /\ Get(calls[c].arg, "name") = "app_open"
    /\ Finished(d) /\ calls[d].cidAtStart = ""
    /\ Get(calls[d].arg, "name") = "custom"

\* C5 (state part): the steps of a call are a prefix of START, VALIDATE,
\* SIGN, DISPATCH; a POST exists only when the call passed the client_id
\* check, the validation and got a signature; each abort ends the call
\* before any later step.
C5_StepsInOrder ==
  \A c \in CallIds :
    /\ IsPrefix(calls[c].steps, PipelineOrder)
    /\ calls[c].posts # <<>> =>
         /\ calls[c].steps = PipelineOrder
         /\ Truthy(calls[c].cidAtStart)
         /\ PassedValidation(c)
         /\ calls[c].signs = 1
         /\ ~calls[c].signature.isNull
    /\ calls[c].outcome = "abort_no_client_id" =>
         calls[c].pc = "done" /\ calls[c].steps = <<"START">>
    /\ calls[c].outcome = "abort_invalid" =>
         calls[c].pc = "done" /\ calls[c].steps = <<"START", "VALIDATE">>
    /\ calls[c].outcome = "abort_no_signature" =>
         /\ calls[c].pc = "done"
         /\ calls[c].steps = <<"START", "VALIDATE", "SIGN">>
    /\ calls[c].outcome \in {"abort_no_client_id", "abort_invalid", "abort_no_signature"} =>
         calls[c].posts = <<>>

\* C5 (step part): a call only ever appends steps, and a finished call
\* takes no further step.
C5_StepsOnlyAppended ==
  \A c \in CallIds :
    /\ IsPrefix(calls[c].steps, calls'[c].steps)
    /\ Len(calls'[c].steps) <= Len(calls[c].steps) + 3
    /\ Finished(c) => calls'[c] = calls[c]

\* C5: a sendEvent call moves through START, VALIDATE, SIGN, DISPATCH in
\* that order without repeating or revisiting a step; a POST is issued only
\* after the client_id check, the validation and the signing succeeded in
\* the same call, and each abort ends the call before any later step.
C5_LinearPipeline == []C5_StepsInOrder /\ [][C5_StepsOnlyAppended]_vars

C5_Witness ==
  \E c, d \in CallIds :
    /\ Finished(c) /\ calls[c].outcome = "done" /\ calls[c].steps = PipelineOrder
    /\ Finished(d) /\ calls[d].outcome = "abort_no_signature"

\* The caller's event is one the registry knows and whose schema accepts it
\* once the derived field is attached.
InputValid(e) ==
  /\ ~NameUnusable(e)
  /\ AjvValidate(EntriesFind(e["name"])[2],
                 IF e["name"] = "app_open"
                 THEN SetField(e, "library_version", PkgVersion) ELSE e).valid

\* Signing the caller's event with the session's key succeeds.
SigningSucceeds(e) == Serializable(e) /\ KeyParses(signing_key)

Posted(c) == calls[c].posts # <<>>

\* C6: a sendEvent call issues at most one POST, and exactly one when
\* client_id is set, the event is valid and signing succeeds; the body of
\* the POST is the one-element sequence holding the call's event; a
\* transport failure is followed by no further POST.
C6_ExactlyOnePostOfOneEvent ==
  \A c \in CallIds :
    /\ Len(calls[c].posts) <= 1
    /\ ( /\ calls[c].pc \in {"awaitPost", "done"}
         /\ Truthy(calls[c].cidAtStart)
         /\ InputValid(calls[c].arg)
         /\ SigningSucceeds(calls[c].arg) )
         => Len(calls[c].posts) = 1
    /\ \A i \in 1..Len(calls[c].posts) :
         /\ Len(calls[c].posts[i].body) = 1
         /\ calls[c].posts[i].body = <<calls[c].event>>
         /\ Get(calls[c].posts[i].body[1], "name") = Get(calls[c].arg, "name")
    /\ calls[c].outcome = "done_transport_error" =>
         calls[c].pc = "done" /\ Len(calls[c].posts) = 1

C6_Witness ==
  \E c, d \in CallIds :
    /\ c # d
    /\ calls[c].outcome = "done_transport_error" /\ Posted(c)
    /\ calls[d].outcome = "done" /\ Posted(d)

\* C7: every dispatched app_open event carries library_version equal to
\* the SDK's version, whether the caller supplied none or another one.
C7_AppOpenCarriesSdkVersion ==
  \A c \in CallIds :
    \A i \in 1..Len(calls[c].posts) :
      Get(calls[c].arg, "name") = "app_open" =>
        /\ Get(calls[c].posts[i].body[1], "library_version") = PkgVersion
        /\ \E k \in 1..Len(calls[c].posts[i].wire[1]) :
             calls[c].posts[i].wire[1][k] = <<"library_version", PkgVersion>>

C7_Witness ==
  \E c, d \in CallIds :
    /\ Posted(c) /\ Get(calls[c].arg, "name") = "app_open"
    /\ Get(calls[c].arg, "library_version") = Undefined
    /\ Posted(d) /\ Get(calls[d].arg, "name") = "app_open"
    /\ Get(calls[d].arg, "library_version") \notin {Undefined, PkgVersion}

\* C8: sendEvent leaves an event of any type but app_open exactly as the
\* caller passed it, so a POST of it carries the caller's event unchanged;
\* on an app_open event only library_version may differ.
C8_EnrichmentFrame ==
  \A c \in CallIds :
    Started(c) =>
      /\ Get(calls[c].arg, "name") # "app_open" =>
           /\ calls[c].event = calls[c].arg
           /\ \A i \in 1..Len(calls[c].posts) :
                calls[c].posts[i].body = <<calls[c].arg>>
      /\ Get(calls[c].arg, "name") = "app_open" =>
           /\ (DOMAIN calls[c].event) \ {"library_version"}
                = (DOMAIN calls[c].arg) \ {"library_version"}
           /\ \A f \in (DOMAIN calls[c].arg) \ {"library_version"} :
                calls[c].event[f] = calls[c].arg[f]

C8_Witness ==
  \E c, d \in CallIds :
    /\ Posted(c) /\ Get(calls[c].arg, "name") = "custom"
    /\ Get(calls[c].arg, "properties") = "x1"
    /\ Posted(d) /\ Get(calls[d].arg, "name") = "app_open"

\* The direct call of sign failed inside its try block: the payload could
\* not be serialized or the key could not be parsed.
SignFails(payload) == JsonStringify(payload.items).threw \/ ~KeyParses(signing_key)

\* C9: sign never throws; a payload that is no array gives absent and one
\* log line without any serialization; an array whose serialization, key
\* parsing or signing fails gives absent and one warning; otherwise sign
\* returns a signature.
C9_SignNeverThrows ==
  lastSign.called =>
    /\ ~lastSign.threw
    /\ ~lastSign.payload.isArray =>
         /\ lastSign.ret = NullSignature
         /\ Len(lastSign.logs) = 1
         /\ ~lastSign.serialized
    /\ lastSign.payload.isArray /\ SignFails(lastSign.payload) =>
         /\ lastSign.ret = NullSignature
         /\ Len(lastSign.logs) = 1
         /\ lastSign.logs[1].level = "warn"
    /\ lastSign.payload.isArray /\ ~SignFails(lastSign.payload) =>
         /\ ~lastSign.ret.isNull
         /\ lastSign.ret.key = signing_key
         /\ Len(lastSign.ret.bytes) = Len(lastSign.payload.items)
         /\ lastSign.logs = <<>>

C9_Witness ==
  /\ lastSign.called
  /\ ~lastSign.payload.isArray
  /\ KeyParses(signing_key)
  /\ Serializable(lastSign.payload.items[1])

\* One of the three required constructor values is missing or falsy.
CtorValueMissing ==
  \/ ~Truthy(ctor.baseURL)
  \/ ~Truthy(Get(ctor.options, "authorization_key"))
  \/ ~Truthy(Get(ctor.options, "signing_key"))

\* C10 (state part): construction failed exactly when a required value was
\* missing or falsy (always when the options were omitted), and then no
\* session exists.
C10_FailsIffMissing ==
  session # "none" =>
    /\ (session = "failed") <=> CtorValueMissing
    /\ ctor.omitted => session = "failed"
    /\ session = "failed" =>
         /\ ctor.error # ""
         /\ \A f \in {signing_key, authorization_key, baseURL, client_id, logger} :
              f = Undefined

\* C10 (step part): a successful construction leaves client_id unset and
\* the default logger in place.
C10_FreshSession ==
  session = "none" /\ session' = "live" =>
    /\ client_id' = Null
    /\ logger' = Console
    /\ signing_key' = Get(ctor'.options, "signing_key")
    /\ authorization_key' = Get(ctor'.options, "authorization_key")

\* C10: construction fails with a hard error whenever baseURL,
\* authorization_key or signing_key is missing or falsy, the omitted
\* options argument included, and then no session exists; with all three
\* supplied it succeeds and the session has client_id unset and the default
\* logger.
C10_Construction == []C10_FailsIffMissing /\ [][C10_FreshSession]_vars

C10_Witness ==
  /\ session = "failed"
  /\ Truthy(ctor.baseURL)
  /\ Truthy(Get(ctor.options, "authorization_key"))
  /\ ~Truthy(Get(ctor.options, "signing_key"))

\* C11 (state part): a call whose POST the transport failed has ended
\* normally, with exactly one warning logged for it.
C11_FailureLoggedOnce ==
  \A c \in CallIds :
    calls[c].transport = "rejected" =>
      /\ calls[c].pc = "done"
      /\ calls[c].outcome = "done_transport_error"
      /\ Len(calls[c].logs) = 1
      /\ calls[c].logs[1].level = "warn"
      /\ calls[c].logs[1].msg = "transport_error"
      /\ Len(calls[c].posts) = 1

\* C11 (step part): the step in which the transport's failure is handled
\* leaves the session's state as it was.
C11_FailureLeavesSession ==
  \A c \in CallIds :
    calls[c].transport = "none" /\ calls'[c].transport = "rejected" =>
      /\ sessionFields' = sessionFields
      /\ ajvErrors' = ajvErrors
      /\ \A d \in CallIds \ {c} : calls'[d] = calls[d]

\* C11: when the transport fails during DISPATCH, sendEvent catches the
\* failure, logs exactly one warning and ends normally in DONE; nothing
\* reaches the caller and the session's state is unchanged.
C11_TransportFailureCaught ==
  []C11_FailureLoggedOnce /\ [][C11_FailureLeavesSession]_vars

C11_Witness ==
  \E c \in CallIds :
    /\ calls[c].transport = "rejected"
    /\ calls[c].pc = "done"
    /\ Truthy(client_id)


\* The call's request for a signature came back absent.
SignatureAbsent(c) == calls[c].signs = 1 /\ calls[c].signature.isNull

\* C12: when sign returns absent inside sendEvent the call stops without a
\* POST and without a log line of its own: all that is logged for the call
\* is the one line of the signer.
C12_AbsentSignatureSilentStop ==
  \A c \in CallIds :
    SignatureAbsent(c) =>
      /\ calls[c].posts = <<>>
      /\ calls[c].pc \in {"awaitSign", "done"}
      /\ Finished(c) => calls[c].outcome = "abort_no_signature"
      /\ Len(calls[c].logs) = 1
      /\ calls[c].logs[1].msg = "sign_failed"
      /\ calls[c].logs = Sign(ArrayOf(<<calls[c].event>>), signing_key,
                              calls[c].logs[1].sink).logs

C12_Witness ==
  \E c \in CallIds :
    /\ Finished(c) /\ SignatureAbsent(c)
    /\ calls[c].outcome = "abort_no_signature"
    /\ KeyParses(signing_key) /\ ~Serializable(calls[c].event)


\* The authorization key given to the constructor.
ConstructedKey == Get(ctor.options, "authorization_key")

\* The three headers that do not depend on client_id are as required.
FixedHeadersSet(c, p) ==
  /\ p.path = "/v1/events"
  /\ DOMAIN p.headers = {"x_socketkit_key", "x_signature", "x_client_id", "user_agent"}
  /\ p.headers.x_socketkit_key = ConstructedKey
  /\ Truthy(p.headers.x_socketkit_key)
  /\ p.headers.x_signature = calls[c].signature
  /\ ~p.headers.x_signature.isNull
  /\ p.headers.x_signature = Sign(ArrayOf(p.body), signing_key, Console).ret
  /\ p.headers.user_agent = UserAgent

C14_CredentialsAsConstructed ==
  session = "live" =>
    /\ signing_key = Get(ctor.options, "signing_key")
    /\ authorization_key = Get(ctor.options, "authorization_key")

\* A step of setClientId changes client_id only, a step of setLogger changes
\* logger only (each besides the debug line it logs), and no other step
\* changes client_id or logger.
C14_SetterFrame ==
  /\ (setterLog' # setterLog /\ setterLog'[1].msg = "set_client_id") =>
       UNCHANGED <<session, ctor, signing_key, authorization_key, baseURL, logger,
                   ajvErrors, objs, calls, lastSign>>
  /\ (setterLog' # setterLog /\ setterLog'[1].msg = "set_logger") =>
       UNCHANGED <<session, ctor, signing_key, authorization_key, baseURL, client_id,
                   ajvErrors, objs, calls, lastSign>>
  /\ (client_id' # client_id \/ logger' # logger) => setterLog' # setterLog
  /\ setterLog' = setterLog =>
       UNCHANGED <<session, ctor, signing_key, authorization_key, baseURL>>

\* C14: after any sequence of setClientId, setLogger, sign and sendEvent
\* calls the session's authorization_key and signing_key equal the values
\* passed to the constructor; setClientId changes only client_id and
\* setLogger changes only logger.
C14_CredentialsImmutable ==
  []C14_CredentialsAsConstructed /\ [][C14_SetterFrame]_vars

C14_Witness ==
  /\ lastSign.called
  /\ Truthy(client_id)
  /\ logger # Console
  /\ \E c, d \in CallIds :
       /\ Posted(c) /\ Finished(c)
       /\ Finished(d) /\ calls[d].outcome = "abort_no_client_id"
  /\ signing_key = Get(ctor.options, "signing_key")


\* sendEvent run alone on a fresh session with the client_id the call
\* started with: on the event object as its caller made it, with an unused
\* validator, up to the first await ...
AloneSync(c) ==
  SendEventSync(calls[calls[c].obj].arg, calls[c].cidAtStart, signing_key, Console, <<>>)

\* ... and from the resumption after signing.
AloneResume(c) ==
  SendEventResume(AloneSync(c).event, AloneSync(c).signature, authorization_key,
                  calls[c].cidAtStart, Console)

\* The call built its request from the client_id it started with.
ClientIdKept(c) ==
  \A i \in 1..Len(calls[c].posts) :
    calls[c].posts[i].headers.x_client_id = calls[c].cidAtStart

\* C15: when the configuration is not changed while the calls are in
\* flight, each concurrent sendEvent call ends as it would alone: with the
\* same abort reason, or with its single POST carrying the same body,
\* signature and headers; no POST is lost, duplicated or mixed up.
C15_ConcurrentCallsIndependent ==
  \A c \in CallIds :
    (Started(c) /\ ClientIdKept(c)) =>
      /\ Len(calls[c].posts) <= 1
      /\ calls[c].pc = "awaitSign" =>
           /\ AloneSync(c).pc = "awaitSign"
           /\ calls[c].signature = AloneSync(c).signature
           /\ calls[c].event = AloneSync(c).event
      /\ calls[c].pc \in {"awaitPost", "done"} =>
           IF AloneSync(c).pc = "done"
           THEN calls[c].outcome = AloneSync(c).outcome /\ calls[c].posts = <<>>
           ELSE /\ calls[c].posts = AloneResume(c).posts
                /\ (calls[c].outcome = "abort_no_signature") =
                     (AloneResume(c).outcome = "abort_no_signature")
                /\ calls[c].outcome \in
                     IF AloneResume(c).pc = "done" THEN {"abort_no_signature"}
                     ELSE {"pending", "done", "done_transport_error"}

\* Two calls in flight at once, each with its own POST awaiting the transport.
C15_Witness ==
  \E c, d \in CallIds :
    /\ c # d
    /\ Posted(c) /\ Posted(d)
    /\ calls[c].pc = "awaitPost" /\ calls[d].pc = "awaitPost"
    /\ ClientIdKept(c) /\ ClientIdKept(d)
    /\ calls[c].posts[1].body # calls[d].posts[1].body


\* A call waits on the transport only for a request it has dispatched.
C16_WaitsOnlyOnDispatched ==
  \A c \in CallIds :
    /\ calls[c].pc = "awaitPost" => (Posted(c) /\ calls[c].outcome = "pending")
    /\ calls[c].outcome \in {"abort_no_client_id", "abort_invalid", "abort_no_signature"} =>
         (Finished(c) /\ calls[c].posts = <<>> /\ calls[c].transport = "none")

\* A call that aborts does so straight from its start or from the
\* resumption after signing, never from a wait on the transport.
C16_AbortsWithoutTransport ==
  \A c \in CallIds :
    (calls'[c].pc = "done" /\ calls[c].pc # "done" /\ calls'[c].posts = <<>>) =>
      calls[c].pc \in {"idle", "awaitSign"}

\* C16: every sendEvent call eventually reaches a terminal state, given a
\* transport that settles every post; a call that aborts before dispatch
\* ends without waiting on the transport, so only a post can keep a call
\* pending.
C16_EveryCallTerminates ==
  /\ \A c \in CallIds : Started(c) ~> Finished(c)
  /\ []C16_WaitsOnlyOnDispatched
  /\ [][C16_AbortsWithoutTransport]_vars

C16_Witness ==
  \E c, d \in CallIds :
    /\ Finished(c) /\ calls[c].transport = "fulfilled"
    /\ Finished(d) /\ calls[d].outcome = "abort_no_signature"


\* An app_open event that lacks library_version and nothing else.
LacksOnlyLibraryVersion(e) ==
  /\ Get(e, "name") = "app_open"
  /\ Get(e, "library_version") = Undefined
  /\ AjvValidate("schema_app_open", e).errors = <<"library_version">>

\* C17: in one sendEvent call the name is resolved against the registry
\* first, library_version is attached to an app_open event next and the
\* schema check runs last: an app_open event lacking only library_version
\* passes validation, and an event that fails classification is never
\* schema-checked (nor enriched).
C17_ClassifyEnrichValidate ==
  \A c \in CallIds :
    (Started(c) /\ ~ClientIdMissing(calls[c].cidAtStart)) =>
      /\ LacksOnlyLibraryVersion(calls[c].arg) =>
           /\ calls[c].checks = 1
           /\ calls[c].outcome \notin {"abort_invalid", "rejected"}
           /\ calls[c].event = SetField(calls[c].arg, "library_version", PkgVersion)
           /\ calls[c].signs = 1
      /\ NameUnusable(calls[c].arg) =>
           /\ calls[c].checks = 0
           /\ calls[c].event = calls[c].arg
           /\ calls[c].outcome \in {"abort_invalid", "rejected"}
      /\ calls[c].event # calls[c].arg => calls[c].arg["name"] \in EventNames
      /\ calls[c].checks = 1 =>
           /\ calls[c].arg["name"] \in EventNames
           /\ calls[c].event = Enrich(calls[c].arg)
           /\ (calls[c].outcome = "abort_invalid") =
                ~AjvValidate(EntriesFind(calls[c].arg["name"])[2], calls[c].event).valid

C17_Witness ==
  \E c, d \in CallIds :
    /\ LacksOnlyLibraryVersion(calls[c].arg) /\ Posted(c)
    /\ Started(d) /\ ~ClientIdMissing(calls[d].cidAtStart)
    /\ ~Truthy(Get(calls[d].arg, "name")) /\ calls[d].outcome = "abort_invalid"


\* C18 as claimed: every POST carries a set x-client-id, whatever
\* setClientId calls run between the start of the call and its dispatch.
C18_ClientIdAlwaysSet ==
  \A c \in CallIds :
    \A i \in 1..Len(calls[c].posts) :
      Truthy(calls[c].posts[i].headers.x_client_id)

\* The step in which call c hands its request to the transport.
Dispatches(c) == calls[c].posts = <<>> /\ calls'[c].posts # <<>>

\* C18 as amended: a POST is dispatched only by a call that started with a
\* set client_id, and its x-client-id is the session's client_id at the
\* moment the headers are built; it is set whenever no setClientId call
\* unset client_id while the call was suspended in signing.
C18_ClientIdReadAtDispatch ==
  \A c \in CallIds :
    Dispatches(c) =>
      /\ Truthy(calls[c].cidAtStart)
      /\ \A i \in 1..Len(calls'[c].posts) :
           /\ calls'[c].posts[i].headers.x_client_id = client_id
           /\ client_id = calls[c].cidAtStart =>
                Truthy(calls'[c].posts[i].headers.x_client_id)

C18_ClientIdOfPost == [][C18_ClientIdReadAtDispatch]_vars

\* A POST dispatched after setClientId unset the client_id the call started with.
C18_Witness ==
  \E c \in CallIds :
    /\ Posted(c)
    /\ Truthy(calls[c].cidAtStart)
    /\ ~Truthy(calls[c].posts[1].headers.x_client_id)


\* C19: the x-signature of every POST is the signature, under the session's
\* signing key, of the serialized one-element array handed to the transport
\* as the body, the event as enriched (an app_open body and its signature
\* both carry library_version); also when the same event object is passed
\* to several sendEvent calls.
C19_SignatureCoversBody ==
  \A c \in CallIds :
    \A i \in 1..Len(calls[c].posts) :
      LET p == calls[c].posts[i]
      IN  /\ Len(p.body) = 1
          /\ p.body[1] = objs[calls[c].obj]
          /\ ~JsonStringify(p.body).threw
          /\ p.headers.x_signature = Signature(signing_key, JsonStringify(p.body).bytes)
          /\ p.headers.x_signature.bytes = p.wire
          /\ p.body[1]["name"] = "app_open" =>
               \E k \in 1..Len(p.headers.x_signature.bytes[1]) :
                 p.headers.x_signature.bytes[1][k] = <<"library_version", PkgVersion>>

\* The same app_open object, handed in without library_version, sent by two
\* calls in flight together, both dispatched.
C19_Witness ==
  \E c, d \in CallIds :
    /\ c # d
    /\ calls[c].obj = calls[d].obj
    /\ Posted(c) /\ Posted(d)
    /\ calls[c].pc = "awaitPost" /\ calls[d].pc = "awaitPost"
    /\ calls[c].arg["name"] = "app_open"
    /\ Get(calls[calls[c].obj].arg, "library_version") = Undefined


\* The error detail a call logged with its rejection of the event.
LoggedDetail(c) ==
  SelectSeq(calls[c].logs, LAMBDA l : l.msg = "ajv_errors")

\* C20: when sendEvent rejects an event as invalid, the error detail it
\* logs is the result of validating that event in that call; when no schema
\* check ran in the call (missing or unknown name) it is not the detail an
\* earlier validation left in the validator.
C20_DetailFromThisValidation ==
  \A c \in CallIds :
    calls[c].outcome = "abort_invalid" =>
      /\ Len(LoggedDetail(c)) = 1
      /\ LoggedDetail(c)[1].detail =
           IF calls[c].checks = 1
           THEN AjvValidate(EntriesFind(calls[c].event["name"])[2], calls[c].event).errors
           ELSE <<>>


====
